---- MODULE Spec2Model ----
(***************************************************************************)
(* Model of the investment ledger service (app/api/investments.py): the    *)
(* investments table, the create and sell handlers that write it, and the  *)
(* analytics handlers (overview, earnings, available-positions) that fold  *)
(* it into positions and period snapshots.                                 *)
(*                                                                         *)
(* Conventions.                                                            *)
(*  - Python's None is the value None below; user ids and prices of the    *)
(*    program are never negative, so None collides with no program value.  *)
(*  - Float columns hold integers in every request the model draws.  The   *)
(*    quotient total_bought_value / net_amount is kept as an exact         *)
(*    fraction [n, d]; round(x, 2) yields hundredths (an integer number of *)
(*    cents).  Binary floating point error is not modelled.                *)
(*  - Strings that the code compares (period keys) are sequences of        *)
(*    character codes, compared the way Python compares str.               *)
(*  - A query without ORDER BY, or with ties under ORDER BY, may return    *)
(*    its rows in any order: every such order is considered.               *)
(***************************************************************************)
EXTENDS Integers, Sequences, FiniteSets, TLC

VARIABLES
    investments,   \* the rows of table "investments"
    next_id,       \* next value of the autoincrement primary key
    request,       \* the request handled by the last step
    response,      \* the response returned by the last step
    sessions,      \* per worker: a request in flight between its read and its commit
    users,         \* the rows of table "users"
    login_tokens,  \* the rows of table "login_tokens"
    now            \* the wall clock, datetime.now(), in days

\* The tables and the clock of the login flow (app/api/auth.py, app/bot.py).
auth_vars == <<users, login_tokens, now>>

vars == <<investments, next_id, request, response, sessions, users, login_tokens, now>>

None == 0 - 1

\* None in a column or parameter whose values are strings (Optional[str], Optional[InvestmentType]).
NoneStr == "None"

\* Python truthiness of an Optional[int] / Optional[float]: None and 0 are falsy.
Truthy(v) == v # None /\ v # 0

-----------------------------------------------------------------------------
(* Bounds of the model.                                                    *)

\* Largest number of rows the table holds in the model.
MaxRows == 3

-----------------------------------------------------------------------------
(* datetime.date                                                           *)

Date(y, m, d) == [year |-> y, month |-> m, day |-> d]

\* None in a parameter whose values are dates (Optional[date]).
NoneDate == Date(0, 0, 0)

IsLeap(y) == (y % 4 = 0) /\ ((y % 100 # 0) \/ (y % 400 = 0))

DaysBeforeMonth(y, m) ==
    LET base == <<0, 31, 59, 90, 120, 151, 181, 212, 243, 273, 304, 334>>
    IN  base[m] + (IF m > 2 /\ IsLeap(y) THEN 1 ELSE 0)

DayOfYear(dt) == DaysBeforeMonth(dt.year, dt.month) + dt.day

DaysBeforeYear(y) ==
    LET p == y - 1 IN p * 365 + (p \div 4) - (p \div 100) + (p \div 400)

\* date.toordinal(): 0001-01-01 is day 1.
ToOrdinal(dt) == DaysBeforeYear(dt.year) + DayOfYear(dt)

\* date.isoweekday(): Monday is 1, Sunday is 7.
IsoWeekday(dt) == ((ToOrdinal(dt) + 6) % 7) + 1

\* Number of ISO weeks of ISO year y.
IsoWeeksInYear(y) ==
    LET P(n) == (n + (n \div 4) - (n \div 100) + (n \div 400)) % 7
    IN  IF P(y) = 4 \/ P(y - 1) = 3 THEN 53 ELSE 52

\* date.isocalendar(): <<ISO year, ISO week, ISO weekday>>.
IsoCalendar(dt) ==
    LET wd == IsoWeekday(dt)
        w  == (DayOfYear(dt) - wd + 10) \div 7
    IN  IF w < 1 THEN <<dt.year - 1, IsoWeeksInYear(dt.year - 1), wd>>
        ELSE IF w > IsoWeeksInYear(dt.year) THEN <<dt.year + 1, 1, wd>>
        ELSE <<dt.year, w, wd>>

\* Order of dates (the Date column's ORDER BY, and d1 <= d2 in Python).
DateLE(a, b) == ToOrdinal(a) <= ToOrdinal(b)

-----------------------------------------------------------------------------
(* str: sequences of character codes                                       *)

Digit(n) == 48 + n

RECURSIVE Digits(_)
\* str(n) for n >= 0.
Digits(n) == IF n < 10 THEN <<Digit(n)>> ELSE Append(Digits(n \div 10), Digit(n % 10))

RECURSIVE ZeroFill(_, _)
\* Left-pads with "0" to at least w characters (format spec 0w d).
NoFill(s, w) == s

ZeroFill(s, w) == IF Len(s) >= w THEN s ELSE ZeroFill(<<48>> \o s, w)

Dash == <<45>>
LetterW == <<87>>

RECURSIVE StrLT(_, _)
\* a < b for Python str: lexicographic by code point, a proper prefix is smaller.
StrLT(a, b) ==
    IF b = <<>> THEN FALSE
    ELSE IF a = <<>> THEN TRUE
    ELSE IF Head(a) # Head(b) THEN Head(a) < Head(b)
    ELSE StrLT(Tail(a), Tail(b))

StrLE(a, b) == a = b \/ StrLT(a, b)

RECURSIVE Sorted(_)
\* sorted(S) for a set S of str: ascending sequence of its elements.
Sorted(S) ==
    IF S = {} THEN <<>>
    ELSE LET m == CHOOSE x \in S : \A y \in S : StrLE(x, y)
         IN  <<m>> \o Sorted(S \ {m})

-----------------------------------------------------------------------------
(* float arithmetic of the analytics: exact fractions and round(x, 2)      *)

\* The value n / d; every failed division is the one value with d = 0.
Frac(n, d) == IF d = 0 THEN [n |-> 1, d |-> 0] ELSE [n |-> n, d |-> d]

\* a / b; b = 0 is Python's ZeroDivisionError, kept as the fraction with d = 0.
Div(a, b) == IF b < 0 THEN Frac(0 - a, 0 - b) ELSE Frac(a, b)

\* The value is no number: a ZeroDivisionError was raised computing it.
Raises(x) == x.d = 0

FracOf(i) == Frac(i, 1)

FracMul(x, i) == Frac(x.n * i, x.d)

FracAdd(x, y) ==
    IF x.d = y.d THEN Frac(x.n + y.n, x.d) ELSE Frac(x.n * y.d + y.n * x.d, x.d * y.d)

FracSub(x, y) == FracAdd(x, Frac(0 - y.n, y.d))

RECURSIVE Gcd(_, _)
Gcd(a, b) == IF b = 0 THEN a ELSE Gcd(b, a % b)

\* The float itself, as returned unrounded: the fraction in lowest terms.
Float(x) ==
    IF x.d = 0 THEN x
    ELSE LET g == Gcd(IF x.n < 0 THEN 0 - x.n ELSE x.n, x.d)
         IN  [n |-> x.n \div g, d |-> x.d \div g]

\* round(x, 2) in hundredths, ties to even as Python rounds.
Round2(x) ==
    LET num == 100 * x.n
        q   == num \div x.d
        r   == num % x.d
    IN  IF 2 * r < x.d THEN q
        ELSE IF 2 * r > x.d THEN q + 1
        ELSE IF q % 2 = 0 THEN q ELSE q + 1

-----------------------------------------------------------------------------
(* The investments table and its queries                                   *)

\* Investment(**fields) with the primary key the database assigns on insert.
Investment(id, f) ==
    [id |-> id, user_id |-> f.user_id, name |-> f.name, symbol |-> f.symbol,
     investment_type |-> f.investment_type, amount |-> f.amount,
     purchase_price |-> f.purchase_price, current_price |-> f.current_price,
     purchase_date |-> f.purchase_date, description |-> f.description]

DbAddReplacing(db, row) == {r \in db : r.symbol # row.symbol} \cup {row}

\* db.add(row); db.commit(): the table gains the row, nothing else changes.
DbAdd(db, row) == db \cup {row}

\* "if user_id: query.filter(user_id == ...)" / "if investment_type: ..." of the
\* analytics handlers; a falsy filter value leaves the query unfiltered.
Filtered(db, user_id, investment_type) ==
    {r \in db : /\ (Truthy(user_id) => r.user_id = user_id)
                /\ (investment_type # NoneStr => r.investment_type = investment_type)}

RECURSIVE SumPairs(_)
\* Sum of the second components of a set of <<row id, value>> pairs.
SumPairs(S) ==
    IF S = {} THEN 0
    ELSE LET p == CHOOSE x \in S : TRUE IN p[2] + SumPairs(S \ {p})

\* func.sum(Investment.amount); SQL SUM over no rows is NULL (None).
SumAmount(rows) ==
    IF rows = {} THEN None ELSE SumPairs({<<r.id, r.amount>> : r \in rows})

\* func.max(Investment.current_price): NULLs are skipped, NULL when all are NULL.
MaxCurrentPrice(rows) ==
    LET priced == {r.current_price : r \in {x \in rows : x.current_price # None}}
    IN  IF priced = {} THEN None ELSE CHOOSE m \in priced : \A p \in priced : p <= m

-----------------------------------------------------------------------------
(* POST /  create_investment                                               *)

\* InvestmentBase / InvestmentCreate field constraints (amount carries none).
InvestmentCreateValid(f) ==
    /\ f.purchase_price > 0
    /\ (f.current_price # None => f.current_price > 0)

create_investment(investment) ==
    /\ request' = [op |-> "create", investment |-> investment]
    /\ IF ~InvestmentCreateValid(investment)
       THEN /\ response' = [status |-> 422]
            /\ UNCHANGED <<investments, next_id>>
       ELSE /\ Cardinality(investments) < MaxRows
            /\ LET db_investment == Investment(next_id, investment)
               IN  /\ investments' = DbAdd(investments, db_investment)
                   /\ response' = [status |-> 201, body |-> db_investment]
            /\ next_id' = next_id + 1
    /\ UNCHANGED <<sessions, auth_vars>>

-----------------------------------------------------------------------------
(* POST /sell  sell_investment                                             *)

\* InvestmentSell field constraints.
InvestmentSellValid(sd) == sd.amount > 0 /\ sd.sale_price > 0

\* available_amount = query.scalar() or 0, the query summing amount over the rows
\* of the symbol, and of the user when sell_data.user_id is truthy.
AvailableAmount(db, sell_data) ==
    LET rows == {r \in db : /\ r.symbol = sell_data.symbol
                            /\ (Truthy(sell_data.user_id) => r.user_id = sell_data.user_id)}
        scalar == SumAmount(rows)
    IN  IF Truthy(scalar) THEN scalar ELSE 0

AbsDropped(x) == 0 - x

Abs(x) == IF x < 0 THEN 0 - x ELSE x

\* "if available_amount <= 0": no open position.
NoPositionStrict(available_amount) == available_amount < 0

NoPosition(available_amount) == available_amount <= 0

\* "if available_amount < sell_data.amount": not enough to sell.
InsufficientOrEqual(available_amount, sell_data) == available_amount <= sell_data.amount

Insufficient(available_amount, sell_data) == available_amount < sell_data.amount

\* The handler after available_amount is read: the two checks, the reference
\* lookup (.first() without ORDER BY: any row of the symbol) and the new row.
\* Each outcome is the response and the rows to insert (none, or the one sell row).
SellOutcomes(db, sell_data, available_amount) ==
    IF NoPosition(available_amount)
    THEN {[response |-> [status |-> 404,
                         detail |-> [msg |-> "No investment found with symbol",
                                     symbol |-> sell_data.symbol]],
           insert |-> <<>>]}
    ELSE IF Insufficient(available_amount, sell_data)
    THEN {[response |-> [status |-> 400,
                         detail |-> [msg |-> "Insufficient amount to sell",
                                     available |-> available_amount,
                                     requested |-> sell_data.amount]],
           insert |-> <<>>]}
    ELSE LET refs == {r \in db : r.symbol = sell_data.symbol}
         IN  IF refs = {}
             THEN {[response |-> [status |-> 404,
                                  detail |-> [msg |-> "Investment with symbol not found",
                                              symbol |-> sell_data.symbol]],
                    insert |-> <<>>]}
             ELSE {[response |-> [status |-> 201],
                    insert |-> <<[user_id |-> sell_data.user_id,
                                name |-> reference_inv.name,
                                symbol |-> sell_data.symbol,
                                investment_type |-> reference_inv.investment_type,
                                amount |-> 0 - Abs(sell_data.amount),
                                purchase_price |-> sell_data.sale_price,
                                purchase_date |-> sell_data.sale_date,
                                description |-> sell_data.description,
                                current_price |-> None]>>]
                   : reference_inv \in refs}

\* Applies one outcome of the handler to the table and answers the request.
SellApply(out) ==
    IF out.insert = <<>>
    THEN /\ response' = out.response
         /\ UNCHANGED <<investments, next_id>>
    ELSE /\ Cardinality(investments) < MaxRows
         /\ LET db_investment == Investment(next_id, out.insert[1])
            IN  /\ investments' = DbAdd(investments, db_investment)
                /\ response' = [status |-> 201, body |-> db_investment]
         /\ next_id' = next_id + 1

\* The whole handler run without interruption (one request at a time).
sell_investment(sell_data) ==
    /\ request' = [op |-> "sell", sell_data |-> sell_data]
    /\ IF ~InvestmentSellValid(sell_data)
       THEN /\ response' = [status |-> 422]
            /\ UNCHANGED <<investments, next_id>>
       ELSE \E out \in SellOutcomes(investments, sell_data,
                                    AvailableAmount(investments, sell_data)) :
                SellApply(out)
    /\ UNCHANGED <<sessions, auth_vars>>

-----------------------------------------------------------------------------
(* GET / PUT / DELETE /{investment_id}                                     *)

\* db.query(Investment).filter(Investment.id == investment_id).first(): the row
\* of the id (id is the primary key), as a set of at most one row.
FirstById(db, investment_id) == {r \in db : r.id = investment_id}

\* HTTPException(404, "Investment with id ... not found").
NotFoundById(investment_id) ==
    [status |-> 404, detail |-> [msg |-> "Investment with id not found",
                                 investment_id |-> investment_id]]

get_investment(investment_id) ==
    /\ request' = [op |-> "get", investment_id |-> investment_id]
    /\ LET found == FirstById(investments, investment_id)
       IN  response' = IF found = {} THEN NotFoundById(investment_id)
                       ELSE [status |-> 200, body |-> CHOOSE r \in found : TRUE]
    /\ UNCHANGED <<investments, next_id, sessions, auth_vars>>

\* InvestmentUpdate field constraints; investment_update holds the fields the
\* request set (model_dump(exclude_unset=True)).
InvestmentUpdateValid(investment_update) ==
    /\ ("purchase_price" \in DOMAIN investment_update
          => (investment_update.purchase_price # None
                => investment_update.purchase_price > 0))
    /\ ("current_price" \in DOMAIN investment_update
          => (investment_update.current_price # None
                => investment_update.current_price > 0))

\* "for field, value in update_data.items(): setattr(investment, field, value)".
SetAttrs(investment, update_data) ==
    [field \in DOMAIN investment |->
        IF field \in DOMAIN update_data THEN update_data[field] ELSE investment[field]]

update_investment(investment_id, investment_update) ==
    /\ request' = [op |-> "update", investment_id |-> investment_id,
                   investment_update |-> investment_update]
    /\ IF ~InvestmentUpdateValid(investment_update)
       THEN /\ response' = [status |-> 422]
            /\ UNCHANGED investments
       ELSE LET found == FirstById(investments, investment_id)
            IN  IF found = {}
                THEN /\ response' = NotFoundById(investment_id)
                     /\ UNCHANGED investments
                ELSE LET investment == CHOOSE r \in found : TRUE
                         updated == SetAttrs(investment, investment_update)
                     IN  /\ investments' = (investments \ {investment}) \cup {updated}
                         /\ response' = [status |-> 200, body |-> updated]
    /\ UNCHANGED <<next_id, sessions, auth_vars>>

DbDeleteNothing(db, row) == db

\* db.delete(row); db.commit().
DbDelete(db, row) == db \ {row}

delete_investment(investment_id) ==
    /\ request' = [op |-> "delete", investment_id |-> investment_id]
    /\ LET found == FirstById(investments, investment_id)
       IN  IF found = {}
           THEN /\ response' = NotFoundById(investment_id)
                /\ UNCHANGED investments
           ELSE /\ investments' = DbDelete(investments, CHOOSE r \in found : TRUE)
                /\ response' = [status |-> 204]
    /\ UNCHANGED <<next_id, sessions, auth_vars>>

-----------------------------------------------------------------------------
(* Position arithmetic shared by the analytics handlers                    *)

\* "if net_amount > 0" / HAVING sum(amount) > 0: the position still exists.
IsActive(net_amount) == net_amount > 0

AvgPurchasePriceUnguarded(total, net_amount) == Div(total, net_amount)

\* "total / net_amount if net_amount > 0 else 0".
AvgPurchasePrice(total, net_amount) ==
    IF net_amount > 0 THEN Div(total, net_amount) ELSE FracOf(0)

\* "pos.current_price or avg_purchase_price".
PriceOr(current_price, avg_purchase_price) ==
    IF Truthy(current_price) THEN FracOf(current_price) ELSE avg_purchase_price

RECURSIVE FracSum(_)
\* Sum of the second components (fractions) of a set of <<key, value>> pairs.
FracSum(S) ==
    IF S = {} THEN FracOf(0)
    ELSE LET p == CHOOSE x \in S : TRUE IN FracAdd(p[2], FracSum(S \ {p}))

\* One position's contribution: average price, invested amount and current value.
Valued(net_amount, total_bought_value, current_price) ==
    LET avg_purchase_price == AvgPurchasePrice(total_bought_value, net_amount)
    IN  [avg_purchase_price |-> avg_purchase_price,
         position_invested |-> FracMul(avg_purchase_price, net_amount),
         position_current_value |->
             FracMul(PriceOr(current_price, avg_purchase_price), net_amount)]

ZeroDivisionError == [status |-> 500, detail |-> "ZeroDivisionError"]

-----------------------------------------------------------------------------
(* GET /analytics/overview  get_portfolio_overview                         *)

SumBuysAndSells(rows) ==
    SumPairs({<<r.id, r.amount * r.purchase_price>> : r \in rows})

\* func.sum(case((amount > 0, amount * purchase_price), else_=0)).
SumBought(rows) ==
    SumPairs({<<r.id, IF r.amount > 0 THEN r.amount * r.purchase_price ELSE 0>> : r \in rows})

\* The grouped query: one row per (symbol, investment_type) of the filtered table.
OverviewPositions(db, user_id, investment_type) ==
    LET rows == Filtered(db, user_id, investment_type)
        Group(k) == {r \in rows : r.symbol = k[1] /\ r.investment_type = k[2]}
    IN  {[symbol |-> k[1], investment_type |-> k[2],
          net_amount |-> SumAmount(Group(k)),
          total_bought_value |-> SumBought(Group(k)),
          current_price |-> MaxCurrentPrice(Group(k))]
         : k \in {<<r.symbol, r.investment_type>> : r \in rows}}

get_portfolio_overview(db, user_id, investment_type) ==
    LET active == {pos \in OverviewPositions(db, user_id, investment_type) :
                       IsActive(pos.net_amount)}
        \* <<(symbol, type), investment_type, the position's values>>
        valued == {<<<<pos.symbol, pos.investment_type>>, pos.investment_type,
                     Valued(pos.net_amount, pos.total_bought_value, pos.current_price)>>
                   : pos \in active}
        Invested(P) == FracSum({<<v[1], v[3].position_invested>> : v \in P})
        Current(P) == FracSum({<<v[1], v[3].position_current_value>> : v \in P})
        total_invested == Invested(valued)
        total_current_value == Current(valued)
        total_profit_loss == FracSub(total_current_value, total_invested)
        profit_loss_percentage ==
            IF total_invested.n > 0
            THEN Frac(total_profit_loss.n * total_invested.d * 100,
                      total_profit_loss.d * total_invested.n)
            ELSE FracOf(0)
        OfType(t) == {v \in valued : v[2] = t}
    IN  IF \E v \in valued : Raises(v[3].avg_purchase_price)
        THEN ZeroDivisionError
        ELSE [status |-> 200,
              total_investments |-> Cardinality(active),
              total_invested |-> Round2(total_invested),
              total_current_value |-> Round2(total_current_value),
              total_profit_loss |-> Round2(total_profit_loss),
              profit_loss_percentage |-> Round2(profit_loss_percentage),
              by_type |-> [t \in {v[2] : v \in valued} |->
                             [count |-> Cardinality(OfType(t)),
                              invested |-> Float(Invested(OfType(t))),
                              current_value |-> Float(Current(OfType(t))),
                              profit_loss |-> Float(FracSub(Current(OfType(t)),
                                                            Invested(OfType(t))))]]]

-----------------------------------------------------------------------------
(* GET /analytics/available-positions  get_available_positions             *)

\* The grouped query before its HAVING clause: one row per (symbol, name,
\* investment_type) of the filtered table.
AvailablePositionGroups(db, user_id, investment_type) ==
    LET rows == Filtered(db, user_id, investment_type)
        Group(k) == {r \in rows : r.symbol = k[1] /\ r.name = k[2]
                                  /\ r.investment_type = k[3]}
    IN  {[symbol |-> k[1], name |-> k[2], investment_type |-> k[3],
          net_amount |-> SumAmount(Group(k)),
          total_invested |-> SumBuysAndSells(Group(k)),
          current_price |-> MaxCurrentPrice(Group(k))]
         : k \in {<<r.symbol, r.name, r.investment_type>> : r \in rows}}

\* .having(func.sum(Investment.amount) > 0).
AvailablePositionRows(db, user_id, investment_type) ==
    {pos \in AvailablePositionGroups(db, user_id, investment_type) : IsActive(pos.net_amount)}

\* The response: the set of AvailablePosition objects (the list's order is the
\* database's choice).
get_available_positions(db, user_id, investment_type) ==
    LET positions == AvailablePositionRows(db, user_id, investment_type)
        Avg(pos) == AvgPurchasePrice(pos.total_invested, pos.net_amount)
        Price(pos) == PriceOr(pos.current_price, Avg(pos))
        Value(pos) == FracMul(Price(pos), pos.net_amount)
    IN  IF \E pos \in positions : Raises(Avg(pos))
        THEN ZeroDivisionError
        ELSE [status |-> 200,
              body |-> {[symbol |-> pos.symbol, name |-> pos.name,
                         investment_type |-> pos.investment_type,
                         available_amount |-> pos.net_amount,
                         average_purchase_price |-> Round2(Avg(pos)),
                         current_price |-> Float(Price(pos)),
                         total_invested |-> Round2(FracOf(pos.total_invested)),
                         total_current_value |-> Round2(Value(pos)),
                         unrealized_profit_loss |->
                             Round2(FracSub(Value(pos), FracOf(pos.total_invested)))]
                        : pos \in positions}]

-----------------------------------------------------------------------------
(* GET /analytics/earnings  get_earnings_analysis                          *)

Granularities == {"day", "week", "month", "year"}

get_period_key(purchase_date, aggregate_by) ==
    IF aggregate_by = "day"
    THEN \* isoformat(): YYYY-MM-DD
         ZeroFill(Digits(purchase_date.year), 4) \o Dash
           \o ZeroFill(Digits(purchase_date.month), 2) \o Dash
           \o ZeroFill(Digits(purchase_date.day), 2)
    ELSE IF aggregate_by = "week"
    THEN \* f"{year}-W{week:02d}" of isocalendar()
         LET iso == IsoCalendar(purchase_date)
         IN  Digits(iso[1]) \o Dash \o LetterW \o ZeroFill(Digits(iso[2]), 2)
    ELSE IF aggregate_by = "month"
    THEN \* strftime("%Y-%m")
         Digits(purchase_date.year) \o Dash \o ZeroFill(Digits(purchase_date.month), 2)
    ELSE \* str(year)
         Digits(purchase_date.year)

RECURSIVE OrderedByPurchaseDate(_)
\* query.order_by(Investment.purchase_date).all(): every sequence of the rows
\* in ascending date order; rows of one date come in any order.
OrderedByPurchaseDate(rows) ==
    IF rows = {} THEN {<<>>}
    ELSE UNION {{<<r>> \o rest : rest \in OrderedByPurchaseDate(rows \ {r})}
                : r \in {x \in rows : \A y \in rows :
                                          DateLE(x.purchase_date, y.purchase_date)}}

FoldInvestmentCountingSells(positions, inv) ==
    LET known == IF inv.symbol \in DOMAIN positions THEN positions
                 ELSE positions @@ (inv.symbol :> [net_amount |-> 0,
                                                   total_bought_value |-> 0,
                                                   current_price |-> inv.current_price])
        pos == known[inv.symbol]
    IN  [known EXCEPT ![inv.symbol] =
            [net_amount |-> pos.net_amount + inv.amount,
             total_bought_value |-> pos.total_bought_value + inv.amount * inv.purchase_price,
             current_price |->
                 IF Truthy(inv.current_price) THEN inv.current_price
                 ELSE pos.current_price]]

\* The body of both transaction loops: the running position of the row's symbol.
FoldInvestment(positions, inv) ==
    LET known == IF inv.symbol \in DOMAIN positions THEN positions
                 ELSE positions @@ (inv.symbol :> [net_amount |-> 0,
                                                   total_bought_value |-> 0,
                                                   current_price |-> inv.current_price])
        pos == known[inv.symbol]
    IN  [known EXCEPT ![inv.symbol] =
            [net_amount |-> pos.net_amount + inv.amount,
             total_bought_value |->
                 IF inv.amount > 0
                 THEN pos.total_bought_value + inv.amount * inv.purchase_price
                 ELSE pos.total_bought_value,
             current_price |->
                 IF Truthy(inv.current_price) THEN inv.current_price
                 ELSE pos.current_price]]

RECURSIVE FoldAll(_, _)
\* "for inv in ...": the rows of a sequence folded in order.
FoldAll(positions, invs) ==
    IF invs = <<>> THEN positions
    ELSE FoldAll(FoldInvestment(positions, Head(invs)), Tail(invs))

\* The cumulative totals of one period over the running positions.
PeriodSnapshot(period_key, positions) ==
    LET active == {symbol \in DOMAIN positions : IsActive(positions[symbol].net_amount)}
        valued == {<<symbol, Valued(positions[symbol].net_amount,
                                    positions[symbol].total_bought_value,
                                    positions[symbol].current_price)>> : symbol \in active}
        cumulative_invested == FracSum({<<v[1], v[2].position_invested>> : v \in valued})
        cumulative_current_value ==
            FracSum({<<v[1], v[2].position_current_value>> : v \in valued})
    IN  IF \E v \in valued : Raises(v[2].avg_purchase_price)
        THEN ZeroDivisionError
        ELSE [date |-> period_key,
              invested |-> Round2(cumulative_invested),
              current_value |-> Round2(cumulative_current_value),
              profit_loss |-> Round2(FracSub(cumulative_current_value, cumulative_invested)),
              count |-> Cardinality(active)]

RECURSIVE GroupByPeriod(_, _, _)
\* "for inv in investments: investments_by_period[key].append(inv)": the rows of
\* each period, in query order.
GroupByPeriod(investments_by_period, invs, aggregate_by) ==
    IF invs = <<>> THEN investments_by_period
    ELSE LET key == get_period_key(Head(invs).purchase_date, aggregate_by)
             known == IF key \in DOMAIN investments_by_period THEN investments_by_period
                      ELSE investments_by_period @@ (key :> <<>>)
         IN  GroupByPeriod([known EXCEPT ![key] = Append(@, Head(invs))],
                           Tail(invs), aggregate_by)

DisplayedPeriodsStrict(all_periods, start_date, end_date, aggregate_by) ==
    LET start_key == get_period_key(start_date, aggregate_by)
        end_key == get_period_key(end_date, aggregate_by)
        from_start == IF start_date = NoneDate THEN all_periods
                      ELSE SelectSeq(all_periods, LAMBDA p : StrLT(start_key, p))
    IN  IF end_date = NoneDate THEN from_start
        ELSE SelectSeq(from_start, LAMBDA p : StrLE(p, end_key))

\* "if start_date: ... p >= start_key" and "if end_date: ... p <= end_key".
DisplayedPeriods(all_periods, start_date, end_date, aggregate_by) ==
    LET start_key == get_period_key(start_date, aggregate_by)
        end_key == get_period_key(end_date, aggregate_by)
        from_start == IF start_date = NoneDate THEN all_periods
                      ELSE SelectSeq(all_periods, LAMBDA p : StrLE(start_key, p))
    IN  IF end_date = NoneDate THEN from_start
        ELSE SelectSeq(from_start, LAMBDA p : StrLE(p, end_key))

PrerollSkipped(positions, periods, first_displayed, investments_by_period) == positions

RECURSIVE Preroll(_, _, _, _)
\* "Process all transactions before start_date": the periods before the first
\* displayed one, in sorted order, folded without a snapshot.
Preroll(positions, periods, first_displayed, investments_by_period) ==
    IF periods = <<>> THEN positions
    ELSE Preroll(IF StrLT(Head(periods), first_displayed)
                 THEN FoldAll(positions, investments_by_period[Head(periods)])
                 ELSE positions,
                 Tail(periods), first_displayed, investments_by_period)

RECURSIVE BuildCumulative(_, _, _)
\* "for period_key in sorted_periods": fold the period's rows, then snapshot.
BuildCumulative(positions, periods, investments_by_period) ==
    IF periods = <<>> THEN <<>>
    ELSE LET after == IF Head(periods) \in DOMAIN investments_by_period
                      THEN FoldAll(positions, investments_by_period[Head(periods)])
                      ELSE positions
         IN  <<PeriodSnapshot(Head(periods), after)>>
               \o BuildCumulative(after, Tail(periods), investments_by_period)

NoPositions == [symbol \in {} |-> 0]

\* The handler from the query result on: investments_list is the filtered table
\* as order_by(purchase_date) returned it.
EarningsOf(investments_list, start_date, end_date, aggregate_by) ==
    IF investments_list = <<>> THEN <<>>
    ELSE LET investments_by_period ==
                 GroupByPeriod([k \in {} |-> <<>>], investments_list, aggregate_by)
             all_periods == Sorted(DOMAIN investments_by_period)
             sorted_periods == DisplayedPeriods(all_periods, start_date, end_date, aggregate_by)
             positions ==
                 IF start_date # NoneDate /\ sorted_periods # <<>>
                 THEN Preroll(NoPositions, all_periods, sorted_periods[1],
                              investments_by_period)
                 ELSE NoPositions
         IN  BuildCumulative(positions, sorted_periods, investments_by_period)

\* The responses the handler can give: one per order the query may return.
get_earnings_analysis(db, user_id, investment_type, start_date, end_date, aggregate_by) ==
    {EarningsOf(investments_list, start_date, end_date, aggregate_by)
     : investments_list \in OrderedByPurchaseDate(Filtered(db, user_id, investment_type))}

-----------------------------------------------------------------------------
(* Requests the specifications draw                                        *)

Workers == {1, 2}

IdleSessions == [w \in Workers |-> [pc |-> "idle"]]

Init ==
    /\ investments = {}
    /\ next_id = 1
    /\ request = [op |-> "none"]
    /\ response = [status |-> 0]
    /\ sessions = IdleSessions
    /\ users = {}
    /\ login_tokens = {}
    /\ now = 0

D0105 == Date(2024, 1, 5)
D0210 == Date(2024, 2, 10)
D0301 == Date(2024, 3, 1)

\* Ledger requests: buys and direct negative entries of AAPL, owned or unowned.
LedgerCreates ==
    [user_id : {None, 1}, name : {"Apple Inc."}, symbol : {"AAPL"},
     investment_type : {"stocks"}, amount : {0 - 1, 2}, purchase_price : {1},
     current_price : {None}, purchase_date : {D0105}, description : {NoneStr}]

\* Sell requests: of a held symbol and of one never bought, scoped or unscoped.
LedgerSells ==
    [user_id : {None, 1}, symbol : {"AAPL", "MSFT"}, amount : {1, 2, 3},
     sale_price : {1}, sale_date : {D0301}, description : {NoneStr}]

Create == \E investment \in LedgerCreates : create_investment(investment)

Sell == \E sell_data \in LedgerSells : sell_investment(sell_data)

Next == Create \/ Sell

\* One request at a time against the ledger.
Spec == Init /\ [][Next]_vars

-----------------------------------------------------------------------------
(* Ledgers for the analytics handlers                                      *)

D1220 == Date(2023, 12, 20)
D0120 == Date(2024, 1, 20)

\* Dates in two years, two months of one year and three ISO weeks.
AnalyticsDates == {D1220, D0105, D0120}

\* <<symbol, name, investment_type>>: one symbol under two types, and another symbol.
Instruments ==
    {<<"AAPL", "Apple Inc.", "stocks">>, <<"AAPL", "Apple Inc.", "crypto">>,
     <<"MSFT", "Microsoft", "stocks">>}

\* <<amount, purchase_price, current_price>>: buys at two prices, with and
\* without a mark price, and a negative (sell) entry.
Quotes == {<<2, 1, None>>, <<1, 2, 3>>, <<1, 1, 1>>, <<0 - 1, 1, None>>}

AnalyticsCreates ==
    {[user_id |-> 1, name |-> i[2], symbol |-> i[1], investment_type |-> i[3],
      amount |-> q[1], purchase_price |-> q[2], current_price |-> q[3],
      purchase_date |-> d, description |-> NoneStr]
     : i \in Instruments, q \in Quotes, d \in AnalyticsDates}

\* The analytics read no id and no insertion order, so each table content is
\* recorded in one order of its requests only: by date, symbol, type and amount.
RequestRank(f) ==
    <<ToOrdinal(f.purchase_date),
      IF f.symbol = "AAPL" THEN 1 ELSE 2,
      IF f.investment_type = "stocks" THEN 1 ELSE 2,
      f.amount + 2 * f.purchase_price + 3>>

RankLE(a, b) ==
    \/ a[1] < b[1]
    \/ a[1] = b[1] /\ a[2] < b[2]
    \/ a[1] = b[1] /\ a[2] = b[2] /\ a[3] < b[3]
    \/ a[1] = b[1] /\ a[2] = b[2] /\ a[3] = b[3] /\ a[4] <= b[4]

Record ==
    \E investment \in AnalyticsCreates :
        /\ \A r \in investments : RankLE(RequestRank(r), RequestRank(investment))
        /\ create_investment(investment)

NextAnalytics == Record

\* Ledgers of buys and negative entries that the analytics handlers read.
SpecAnalytics == Init /\ [][NextAnalytics]_vars

\* The filter values and windows the analytics requests draw.
UserFilters == {None, 1}
TypeFilters == {NoneStr, "stocks", "crypto"}
WindowDates == {NoneDate} \cup AnalyticsDates

-----------------------------------------------------------------------------
(* The scenario ledger: AAPL bought twice and partly sold                  *)

ScenarioCreates ==
    [user_id : {None}, name : {"Apple Inc."}, symbol : {"AAPL"},
     investment_type : {"stocks"}, amount : {10, 5}, purchase_price : {100, 120},
     current_price : {None}, purchase_date : {D0105, D0210}, description : {NoneStr}]

ScenarioSells ==
    [user_id : {None}, symbol : {"AAPL"}, amount : {3}, sale_price : {150},
     sale_date : {D0301}, description : {NoneStr}]

ScenarioBuy == \E investment \in ScenarioCreates : create_investment(investment)

ScenarioSell == \E sell_data \in ScenarioSells : sell_investment(sell_data)

NextScenario == ScenarioBuy \/ ScenarioSell

SpecScenario == Init /\ [][NextScenario]_vars

-----------------------------------------------------------------------------
(* Concurrent sell requests: each worker runs the handler in its own database *)
(* session; the read of available_amount and the insert are separate round   *)
(* trips, and nothing in the handler locks the rows between them.             *)

\* Lines 404-412: the worker takes a request and reads available_amount.
sell_read(w, sell_data) ==
    /\ sessions[w].pc = "idle"
    /\ InvestmentSellValid(sell_data)
    /\ sessions' = [sessions EXCEPT ![w] =
                      [pc |-> "read", sell_data |-> sell_data,
                       available_amount |-> AvailableAmount(investments, sell_data)]]
    /\ UNCHANGED <<investments, next_id, request, response, auth_vars>>

\* Lines 414-454: the checks on the value read earlier, the reference lookup and
\* the insert, against the table as it is now.
sell_commit(w) ==
    /\ sessions[w].pc = "read"
    /\ request' = [op |-> "sell", sell_data |-> sessions[w].sell_data]
    /\ \E out \in SellOutcomes(investments, sessions[w].sell_data,
                               sessions[w].available_amount) :
            SellApply(out)
    /\ sessions' = [sessions EXCEPT ![w] = [pc |-> "idle"]]
    /\ UNCHANGED auth_vars

\* Buys of AAPL (amount > 0 only), owned or unowned.
RaceCreates ==
    [user_id : {None, 1}, name : {"Apple Inc."}, symbol : {"AAPL"},
     investment_type : {"stocks"}, amount : {2}, purchase_price : {1},
     current_price : {None}, purchase_date : {D0105}, description : {NoneStr}]

RaceSells ==
    [user_id : {None, 1}, symbol : {"AAPL"}, amount : {1, 2},
     sale_price : {1}, sale_date : {D0301}, description : {NoneStr}]

Buy == \E investment \in RaceCreates : create_investment(investment)

SellRead == \E w \in Workers, sell_data \in RaceSells : sell_read(w, sell_data)

SellCommit == \E w \in Workers : sell_commit(w)

NextRace == Buy \/ SellRead \/ SellCommit

\* Buys and sells whose two halves interleave freely across the workers.
SpecRace == Init /\ [][NextRace]_vars

-----------------------------------------------------------------------------
(* Creates, reads, updates and deletes by id                               *)

\* Ids are handed out up to MaxId; requests name any of them.
MaxId == 3

CrudIds == 1 .. MaxId

\* Create requests: two symbols, amounts and prices on both sides of 0.
CrudCreates ==
    [user_id : {1}, name : {"Apple Inc."}, symbol : {"AAPL", "MSFT"},
     investment_type : {"stocks"}, amount : {0, 2}, purchase_price : {0, 1},
     current_price : {None}, purchase_date : {D0105}, description : {NoneStr}]

\* Update bodies: no field, one price, one rejected price, an amount, a symbol.
CrudUpdates ==
    {[field \in {} |-> None],
     [current_price |-> 2],
     [purchase_price |-> 0],
     [amount |-> 5],
     [symbol |-> "MSFT"]}

CrudCreate ==
    /\ next_id <= MaxId
    /\ \E investment \in CrudCreates : create_investment(investment)

Get == \E investment_id \in CrudIds : get_investment(investment_id)

Update ==
    \E investment_id \in CrudIds, investment_update \in CrudUpdates :
        update_investment(investment_id, investment_update)

Delete == \E investment_id \in CrudIds : delete_investment(investment_id)

NextCrud == CrudCreate \/ Get \/ Update \/ Delete

\* One request at a time; the id sequence never hands an id out twice.
SpecCrud == Init /\ [][NextCrud]_vars

-----------------------------------------------------------------------------
(* Buys and sells one at a time, with and without a user_id                *)

\* Sell requests for a user, for no user, and for user_id 0 (falsy: unscoped).
SequentialSells ==
    [user_id : {None, 0, 1}, symbol : {"AAPL"}, amount : {1, 2},
     sale_price : {1}, sale_date : {D0301}, description : {NoneStr}]

SellAtOnce == \E sell_data \in SequentialSells : sell_investment(sell_data)

NextSequential == Buy \/ SellAtOnce

\* Creates with amount > 0 and whole sells, one request at a time.
SpecSequential == Init /\ [][NextSequential]_vars

-----------------------------------------------------------------------------
(* One symbol held under two investment types                              *)

\* Buys of AAPL as a stock and as a crypto asset, owned or unowned.
PortfolioCreates ==
    {[user_id |-> u, name |-> i[1], symbol |-> "AAPL", investment_type |-> i[2],
      amount |-> 2, purchase_price |-> 1, current_price |-> 3,
      purchase_date |-> D0105, description |-> NoneStr]
     : u \in {None, 1}, i \in {<<"Apple Inc.", "stocks">>, <<"Apple Coin", "crypto">>}}

\* Sells of AAPL at another price and date than the buys.
PortfolioSells ==
    [user_id : {None, 1}, symbol : {"AAPL"}, amount : {1, 3},
     sale_price : {2}, sale_date : {D0301}, description : {"sold"}]

PortfolioBuy == \E investment \in PortfolioCreates : create_investment(investment)

PortfolioSell == \E sell_data \in PortfolioSells : sell_investment(sell_data)

NextPortfolio == PortfolioBuy \/ PortfolioSell

SpecPortfolio == Init /\ [][NextPortfolio]_vars

-----------------------------------------------------------------------------
(* Period keys of pairs of dates                                           *)

\* Dates at the start and the end of years of three and of four digits.
KeyDates ==
    {Date(y, md[1], md[2])
     : y \in {999, 1000, 2024, 2025},
       md \in {<<1, 1>>, <<1, 5>>, <<2, 10>>, <<12, 28>>, <<12, 29>>, <<12, 30>>, <<12, 31>>}}

\* A pair of dates and a granularity await their keys.
InitPeriods ==
    /\ investments = {}
    /\ next_id = 1
    /\ request \in [op : {"get_period_key"}, d1 : KeyDates, d2 : KeyDates,
                    aggregate_by : Granularities]
    /\ response = [status |-> 0]
    /\ sessions = IdleSessions
    /\ users = {}
    /\ login_tokens = {}
    /\ now = 0

\* get_period_key applied to both dates of the request.
PeriodKeys ==
    /\ response.status = 0
    /\ response' = [status |-> 200,
                    keys |-> <<get_period_key(request.d1, request.aggregate_by),
                               get_period_key(request.d2, request.aggregate_by)>>]
    /\ UNCHANGED <<investments, next_id, request, sessions, auth_vars>>

NextPeriods == PeriodKeys

SpecPeriods == InitPeriods /\ [][NextPeriods]_vars

-----------------------------------------------------------------------------
(* Properties                                                              *)

\* Net position of a sell scope: the sum of amount over the rows of the symbol,
\* and of the user when the scope names one.
ScopeNet(db, symbol, user_id) ==
    SumPairs({<<r.id, r.amount>> :
              r \in {x \in db : x.symbol = symbol /\ (Truthy(user_id) => x.user_id = user_id)}})

\* C1: under any interleaving of concurrent sells against one (symbol, user_id)
\* scope, the net position of the symbol never goes below zero.  The scope is
\* one when every row of the symbol carries the same user_id: then every sell
\* of the symbol so far was made for that scope.
C1_NoOversell ==
    \A symbol \in {r.symbol : r \in investments} :
        LET rows == {r \in investments : r.symbol = symbol}
        IN  (\A a, b \in rows : a.user_id = b.user_id) => ScopeNet(investments, symbol, None) >= 0

\* C2: a sell against a scope with available_amount > 0 fails with 400, reporting
\* the available and the requested amount, when it asks for more than is
\* available, and succeeds leaving the scope's net amount at exactly 0 when it
\* asks for exactly what is available.
C2_SellAgainstAvailable ==
    [][request'.op = "sell" =>
        LET sell_data == request'.sell_data
            available == ScopeNet(investments, sell_data.symbol, sell_data.user_id)
        IN  available > 0 =>
              /\ sell_data.amount > available =>
                    /\ response'.status = 400
                    /\ response'.detail.available = available
                    /\ response'.detail.requested = sell_data.amount
              /\ sell_data.amount = available =>
                    /\ response'.status = 201
                    /\ ScopeNet(investments', sell_data.symbol, sell_data.user_id) = 0
    ]_vars

\* A sell of exactly the available amount has succeeded and emptied its scope.
C2_Witness ==
    /\ request.op = "sell"
    /\ response.status = 201
    /\ ScopeNet(investments, request.sell_data.symbol, request.sell_data.user_id) = 0
    /\ \E r \in investments : r.symbol = request.sell_data.symbol /\ r.amount > 0

\* C3: a sell fails with 404 whenever the amounts of its scope sum to 0 or less,
\* also when the symbol has no row at all; the 404 wins over the 400 that the
\* same request would get for asking more than is available.
C3_SellWithoutPosition ==
    [][request'.op = "sell" =>
        LET sell_data == request'.sell_data
        IN  ScopeNet(investments, sell_data.symbol, sell_data.user_id) <= 0 =>
              /\ response'.status = 404
              /\ investments' = investments
    ]_vars

\* A sell of a symbol that has no row was answered 404.
C3_Witness ==
    /\ request.op = "sell"
    /\ response.status = 404
    /\ \A r \in investments : r.symbol # request.sell_data.symbol
    /\ investments # {}

\* C4: a sell keeps every earlier row as it was; a successful sell adds exactly
\* one row and a failed sell (404 or 400) adds none.
C4_SellAppendOnly ==
    [][request'.op = "sell" =>
        /\ investments \subseteq investments'
        /\ response'.status \in {201, 400, 404}
        /\ response'.status = 201 => Cardinality(investments' \ investments) = 1
        /\ response'.status \in {400, 404} => investments' = investments
    ]_vars

\* A sell has succeeded against a ledger that already held rows.
C4_Witness ==
    /\ request.op = "sell"
    /\ response.status = 201
    /\ response.body \in investments
    /\ Cardinality(investments) >= 2

\* The table holds exactly the scenario's three transactions:
\* buy AAPL 10 @ 100 on 2024-01-05, buy AAPL 5 @ 120 on 2024-02-10,
\* sell AAPL 3 @ 150 on 2024-03-01.
IsScenarioLedger ==
    /\ Cardinality(investments) = 3
    /\ {<<r.symbol, r.amount, r.purchase_price, r.purchase_date>> : r \in investments}
         = {<<"AAPL", 10, 100, D0105>>, <<"AAPL", 5, 120, D0210>>, <<"AAPL", 0 - 3, 150, D0301>>}

\* The monthly earnings of the whole table have these three snapshots.
MonthlySnapshotsAre(jan, feb, mar) ==
    \A result \in get_earnings_analysis(investments, None, NoneStr, NoneDate, NoneDate, "month") :
        /\ Len(result) = 3
        /\ result[1].date = <<50, 48, 50, 52, 45, 48, 49>>
        /\ result[2].date = <<50, 48, 50, 52, 45, 48, 50>>
        /\ result[3].date = <<50, 48, 50, 52, 45, 48, 51>>
        /\ <<result[1].invested, result[1].count>> = jan
        /\ <<result[2].invested, result[2].count>> = feb
        /\ <<result[3].invested, result[3].count>> = mar

\* Net amount of AAPL after every transaction of the table is folded.
FinalNetOfAAPL ==
    {FoldAll(NoPositions, l)["AAPL"].net_amount : l \in OrderedByPurchaseDate(investments)}

FilteredTables == {Filtered(investments, u, t) : u \in UserFilters, t \in TypeFilters}

\* Period of the latest transaction of a non-empty set of rows.
LastPeriodOf(rows, aggregate_by) ==
    LET latest == CHOOSE r \in rows : \A x \in rows : DateLE(x.purchase_date, r.purchase_date)
    IN  get_period_key(latest.purchase_date, aggregate_by)

\* C5: whenever the window shows the last period of the data, the last earnings
\* snapshot has the invested and current_value totals of the overview of the
\* same filtered ledger.
C5_LastSnapshotIsOverview ==
    \A u \in UserFilters, t \in TypeFilters, g \in Granularities :
      \A start_date \in WindowDates, end_date \in WindowDates :
        \A result \in get_earnings_analysis(investments, u, t, start_date, end_date, g) :
            (/\ result # <<>>
             /\ result[Len(result)].date = LastPeriodOf(Filtered(investments, u, t), g))
            => LET overview == get_portfolio_overview(investments, u, t)
                   last == result[Len(result)]
               IN  /\ last.invested = overview.total_invested
                   /\ last.current_value = overview.total_current_value

\* The transactions of a query result whose period is p or earlier.
UpToPeriod(investments_list, p, aggregate_by) ==
    SelectSeq(investments_list,
              LAMBDA inv : StrLE(get_period_key(inv.purchase_date, aggregate_by), p))

\* C7: every snapshot of period p, under any window, is the cumulative state of
\* exactly the transactions of periods <= p (those before the first displayed
\* period included), and so equals the snapshot of p of the unwindowed query.
C7_SnapshotsAreCumulative ==
    \A g \in Granularities :
      \A investments_list \in OrderedByPurchaseDate(investments) :
        LET full == EarningsOf(investments_list, NoneDate, NoneDate, g)
            unwindowed == {full[j] : j \in DOMAIN full}
            periods == {get_period_key(investments_list[n].purchase_date, g)
                        : n \in DOMAIN investments_list}
            cumulative ==
                {PeriodSnapshot(p, FoldAll(NoPositions, UpToPeriod(investments_list, p, g)))
                 : p \in periods}
        IN  \A start_date \in WindowDates, end_date \in WindowDates :
              LET windowed == EarningsOf(investments_list, start_date, end_date, g)
              IN  \A i \in DOMAIN windowed :
                    /\ windowed[i] \in cumulative
                    /\ windowed[i] \in unwindowed

\* A window starting after the first period shows a position bought before it.
C7_Witness ==
    \E investments_list \in OrderedByPurchaseDate(investments) :
        LET full == EarningsOf(investments_list, NoneDate, NoneDate, "month")
            windowed == EarningsOf(investments_list, D0105, NoneDate, "month")
        IN  /\ Len(full) = 2
            /\ Len(windowed) = 1
            /\ full[1].count = 1
            /\ windowed[1].count = 2

\* Sum of the amounts of a set of rows.
NetOf(rows) == SumPairs({<<r.id, r.amount>> : r \in rows})

\* The rows of a set that belong to the group (symbol, investment_type).
GroupOf(rows, symbol, investment_type) ==
    {r \in rows : r.symbol = symbol /\ r.investment_type = investment_type}

\* The (symbol, investment_type) keys of a set of rows.
GroupKeys(rows) == {<<r.symbol, r.investment_type>> : r \in rows}

\* C8: available-positions, the overview and every earnings snapshot include a
\* position only when its net amount is > 0: a (symbol, investment_type) group
\* whose amounts sum to 0 or less adds nothing to the returned positions, the
\* totals, by_type or a snapshot -- each response is the one the ledger without
\* the group's rows gets.
C8_OnlyActivePositions ==
    /\ \A u \in UserFilters, t \in TypeFilters :
         /\ \A p \in get_available_positions(investments, u, t).body : p.available_amount > 0
         /\ \A k \in GroupKeys(Filtered(investments, u, t)) :
              LET group == GroupOf(Filtered(investments, u, t), k[1], k[2])
              IN  NetOf(group) <= 0 =>
                    /\ get_available_positions(investments \ group, u, t)
                         = get_available_positions(investments, u, t)
                    /\ get_portfolio_overview(investments \ group, u, t)
                         = get_portfolio_overview(investments, u, t)
    /\ \A g \in Granularities :
         \A investments_list \in OrderedByPurchaseDate(investments) :
           LET result == EarningsOf(investments_list, NoneDate, NoneDate, g)
           IN  \A i \in DOMAIN result :
                 LET upto == UpToPeriod(investments_list, result[i].date, g)
                     rows == {upto[n] : n \in DOMAIN upto}
                 IN  \A k \in GroupKeys(rows) :
                       NetOf(GroupOf(rows, k[1], k[2])) <= 0 =>
                         result[i] = PeriodSnapshot(result[i].date,
                                       FoldAll(NoPositions,
                                               SelectSeq(upto,
                                                 LAMBDA inv : <<inv.symbol, inv.investment_type>> # k)))

\* Units bought minus units sold over a set of rows.
BoughtMinusSold(rows) ==
    SumPairs({<<r.id, r.amount>> : r \in {x \in rows : x.amount > 0}})
      - SumPairs({<<r.id, 0 - r.amount>> : r \in {x \in rows : x.amount < 0}})

\* C9: the net_amount of the position of every (symbol, investment_type) group
\* is the sum of the amounts of the group's transactions, in whatever order
\* they are aggregated: in the overview's grouped query and in the running
\* positions behind the last earnings snapshot.
C9_NetAmountIsSum ==
    \A rows \in FilteredTables :
      /\ \A pos \in OverviewPositions(rows, None, NoneStr) :
           pos.net_amount = BoughtMinusSold(GroupOf(rows, pos.symbol, pos.investment_type))
      /\ \A investments_list \in OrderedByPurchaseDate(rows) :
           LET positions == FoldAll(NoPositions, investments_list)
           IN  \A k \in GroupKeys(rows) :
                 /\ k[1] \in DOMAIN positions
                 /\ positions[k[1]].net_amount = BoughtMinusSold(GroupOf(rows, k[1], k[2]))

\* The running positions at the end of each period of an unwindowed query.
RunningPositions(investments_list, aggregate_by) ==
    {FoldAll(NoPositions, UpToPeriod(investments_list, p, aggregate_by))
     : p \in {get_period_key(investments_list[i].purchase_date, aggregate_by)
              : i \in DOMAIN investments_list}}

\* C10: no aggregation divides by zero computing average_purchase_price: the
\* overview, available-positions and every earnings snapshot complete, and for
\* every group with net_amount <= 0 the average expression evaluates to 0.
C10_NoDivisionByZero ==
    /\ \A u \in UserFilters, t \in TypeFilters :
         /\ get_portfolio_overview(investments, u, t).status = 200
         /\ get_available_positions(investments, u, t).status = 200
         /\ \A pos \in OverviewPositions(investments, u, t) :
              pos.net_amount <= 0 =>
                AvgPurchasePrice(pos.total_bought_value, pos.net_amount) = FracOf(0)
         /\ \A pos \in AvailablePositionGroups(investments, u, t) :
              pos.net_amount <= 0 =>
                AvgPurchasePrice(pos.total_invested, pos.net_amount) = FracOf(0)
    /\ \A g \in Granularities :
         \A investments_list \in OrderedByPurchaseDate(investments) :
           /\ \A start_date \in WindowDates, end_date \in WindowDates :
                LET result == EarningsOf(investments_list, start_date, end_date, g)
                IN  \A i \in DOMAIN result : result[i] # ZeroDivisionError
           /\ \A positions \in RunningPositions(investments_list, g) :
                \A symbol \in DOMAIN positions :
                  positions[symbol].net_amount <= 0 =>
                    AvgPurchasePrice(positions[symbol].total_bought_value,
                                     positions[symbol].net_amount) = FracOf(0)

\* A group bought and sold out (cost basis > 0 over a net amount of 0) next to
\* a group whose net amount is negative.
C10_Witness ==
    \E a, b \in OverviewPositions(investments, None, NoneStr) :
        /\ a.net_amount = 0
        /\ a.total_bought_value > 0
        /\ b.net_amount < 0

\* A row of the table carries the id.
HasId(db, investment_id) == \E r \in db : r.id = investment_id

\* C11: a create whose amount is not > 0 or whose purchase_price is not > 0 is
\* rejected with 422 and leaves the ledger unchanged.
C11_CreateValidation ==
    [][request'.op = "create" =>
        LET investment == request'.investment
        IN  (investment.amount <= 0 \/ investment.purchase_price <= 0) =>
              /\ response'.status = 422
              /\ investments' = investments
    ]_vars

\* C12: get, update (with a well-formed body) and delete of an id that is not
\* in the ledger answer 404 and leave the ledger unchanged; a successful delete
\* removes the id, and an id that was handed out and is gone never comes back,
\* so every later get of a deleted id answers 404.
C12_UnknownIdNotFound ==
    [][/\ (\/ request'.op \in {"get", "delete"}
           \/ /\ request'.op = "update"
              /\ \A field \in DOMAIN request'.investment_update \cap
                                {"purchase_price", "current_price"} :
                   request'.investment_update[field] > 0)
          => (~HasId(investments, request'.investment_id) =>
                /\ response'.status = 404
                /\ investments' = investments)
       /\ (request'.op = "delete" /\ response'.status = 204)
          => ~HasId(investments', request'.investment_id)
       /\ \A investment_id \in 1 .. (next_id - 1) :
            ~HasId(investments, investment_id) => ~HasId(investments', investment_id)
    ]_vars

\* A get of an id that was created and then deleted was answered 404, with
\* other rows still in the ledger.
C12_Witness ==
    /\ request.op = "get"
    /\ response.status = 404
    /\ request.investment_id < next_id
    /\ ~HasId(investments, request.investment_id)
    /\ investments # {}

C14_UpdateKeepsIdentity ==
    [][request'.op = "update" =>
        \A r \in investments, u \in investments' :
            u.id = r.id =>
              /\ u.user_id = r.user_id
              /\ u.symbol = r.symbol
              /\ u.investment_type = r.investment_type
              /\ u.amount = r.amount
              /\ u.purchase_date = r.purchase_date
    ]_vars

\* C15: a successful sell appends one transaction with amount = -abs(requested
\* amount), purchase_price = sale_price, purchase_date = sale_date, no
\* current_price, the request's symbol, user_id and description, and the name
\* and investment_type of a transaction of the symbol already in the ledger.
C15_SellRow ==
    [][(request'.op = "sell" /\ response'.status = 201) =>
        LET sell_data == request'.sell_data
            requested == IF sell_data.amount < 0 THEN 0 - sell_data.amount ELSE sell_data.amount
        IN  \E row \in investments' \ investments :
              /\ investments' = investments \cup {row}
              /\ response'.body = row
              /\ row.amount = 0 - requested
              /\ row.purchase_price = sell_data.sale_price
              /\ row.purchase_date = sell_data.sale_date
              /\ row.current_price = None
              /\ row.symbol = sell_data.symbol
              /\ row.user_id = sell_data.user_id
              /\ row.description = sell_data.description
              /\ \E reference_inv \in investments :
                   /\ reference_inv.symbol = sell_data.symbol
                   /\ row.name = reference_inv.name
                   /\ row.investment_type = reference_inv.investment_type
    ]_vars

\* A sell went through against a ledger holding the symbol under two types, at
\* a price and date different from every buy.
C15_Witness ==
    /\ request.op = "sell"
    /\ response.status = 201
    /\ response.body \in investments
    /\ response.body.amount < 0
    /\ \E a, b \in investments :
         /\ a.amount > 0 /\ b.amount > 0
         /\ a.investment_type # b.investment_type
         /\ a.purchase_price # response.body.purchase_price

\* The rows of one investment type.
OfType(db, investment_type) == {r \in db : r.investment_type = investment_type}

\* C16: every position computation keys its positions by (symbol,
\* investment_type) jointly: rows of another type never add to a position's
\* net_amount or total_bought_value, so what each computation holds for the
\* rows of one type is what it holds when the ledger has those rows alone --
\* in the overview, available-positions, the earnings running map and the
\* available_amount of a sell.
C16_JointGroupingKey ==
    \A investment_type \in {r.investment_type : r \in investments} :
      LET own == OfType(investments, investment_type)
      IN  /\ OfType(OverviewPositions(investments, None, NoneStr), investment_type)
               = OverviewPositions(own, None, NoneStr)
          /\ OfType(AvailablePositionGroups(investments, None, NoneStr), investment_type)
               = AvailablePositionGroups(own, None, NoneStr)
          /\ \A investments_list \in OrderedByPurchaseDate(investments) :
               LET all == FoldAll(NoPositions, investments_list)
                   alone == FoldAll(NoPositions,
                                    SelectSeq(investments_list,
                                              LAMBDA inv : inv.investment_type = investment_type))
               IN  \A symbol \in DOMAIN alone :
                     /\ all[symbol].net_amount = alone[symbol].net_amount
                     /\ all[symbol].total_bought_value = alone[symbol].total_bought_value
          /\ \A sell_data \in PortfolioSells :
               (\E r \in own : /\ r.symbol = sell_data.symbol
                               /\ (Truthy(sell_data.user_id) => r.user_id = sell_data.user_id))
                 => AvailableAmount(investments, sell_data) = AvailableAmount(own, sell_data)

\* Sum of amount * purchase_price over the buys (amount > 0) of a set of rows.
BuysValue(rows) ==
    SumPairs({<<r.id, r.amount * r.purchase_price>> : r \in {x \in rows : x.amount > 0}})

\* C17: the cost basis every position computation accumulates is the sum of
\* amount * purchase_price over the buys among the rows the position
\* aggregates; the sells among them add nothing: total_bought_value of the
\* overview, total_invested of available-positions, total_bought_value of the
\* earnings running map.
C17_CostBasisCountsBuysOnly ==
    /\ \A pos \in OverviewPositions(investments, None, NoneStr) :
         pos.total_bought_value
           = BuysValue({r \in investments : /\ r.symbol = pos.symbol
                                            /\ r.investment_type = pos.investment_type})
    /\ \A pos \in AvailablePositionGroups(investments, None, NoneStr) :
         pos.total_invested
           = BuysValue({r \in investments : /\ r.symbol = pos.symbol
                                            /\ r.name = pos.name
                                            /\ r.investment_type = pos.investment_type})
    /\ \A investments_list \in OrderedByPurchaseDate(investments) :
         LET positions == FoldAll(NoPositions, investments_list)
         IN  \A symbol \in DOMAIN positions :
               positions[symbol].total_bought_value
                 = BuysValue({r \in investments : r.symbol = symbol})

\* The current_price values of the rows of the latest purchase_date among the
\* rows that carry a current_price (several when that date has several rows).
MostRecentPrices(rows) ==
    LET priced == {r \in rows : r.current_price # None}
    IN  {r.current_price
         : r \in {x \in priced : \A y \in priced : DateLE(y.purchase_date, x.purchase_date)}}

\* C18: for every (symbol, investment_type) group with a priced transaction,
\* the position's current_price is the current_price of the group's most
\* recent priced transaction, and the overview, available-positions and the
\* running map behind the last earnings snapshot all hold that value.
C18_CurrentPriceIsMostRecent ==
    \A k \in GroupKeys(investments) :
      LET recent == MostRecentPrices(GroupOf(investments, k[1], k[2]))
      IN  recent # {} =>
            /\ \A pos \in OverviewPositions(investments, None, NoneStr) :
                 (pos.symbol = k[1] /\ pos.investment_type = k[2]) => pos.current_price \in recent
            /\ \A pos \in AvailablePositionGroups(investments, None, NoneStr) :
                 (pos.symbol = k[1] /\ pos.investment_type = k[2]) => pos.current_price \in recent
            /\ \A investments_list \in OrderedByPurchaseDate(investments) :
                 FoldAll(NoPositions, investments_list)[k[1]].current_price \in recent

\* C19: the earnings series has exactly one snapshot for each period key k of
\* the queried rows with key(start_date) <= k <= key(end_date) (each bound only
\* when given), in strictly ascending key order, and no other; a row dated
\* before start_date in start_date's own bucket is counted in that bucket's
\* snapshot; a query that matches no row answers the empty series.
C19_OneSnapshotPerDisplayedPeriod ==
    /\ \A u \in UserFilters, t \in TypeFilters :
         Filtered(investments, u, t) = {} =>
           \A g \in Granularities, start_date \in WindowDates, end_date \in WindowDates :
             get_earnings_analysis(investments, u, t, start_date, end_date, g) = {<<>>}
    /\ \A g \in Granularities :
         \A investments_list \in OrderedByPurchaseDate(investments) :
           LET keys == {get_period_key(investments_list[n].purchase_date, g)
                        : n \in DOMAIN investments_list}
           IN  \A start_date \in WindowDates, end_date \in WindowDates :
                 LET result == EarningsOf(investments_list, start_date, end_date, g)
                     start_key == get_period_key(start_date, g)
                     end_key == get_period_key(end_date, g)
                     shown == {k \in keys :
                                 /\ (start_date # NoneDate => StrLE(start_key, k))
                                 /\ (end_date # NoneDate => StrLE(k, end_key))}
                 IN  /\ {result[i].date : i \in DOMAIN result} = shown
                     /\ Len(result) = Cardinality(shown)
                     /\ \A i, j \in DOMAIN result :
                          i < j => StrLT(result[i].date, result[j].date)
                     /\ \A n \in DOMAIN investments_list :
                          (/\ start_date # NoneDate
                           /\ investments_list[n].purchase_date # start_date
                           /\ DateLE(investments_list[n].purchase_date, start_date)
                           /\ get_period_key(investments_list[n].purchase_date, g) = start_key
                           /\ start_key \in shown)
                          => \E i \in DOMAIN result :
                               result[i] = PeriodSnapshot(start_key,
                                             FoldAll(NoPositions,
                                                     UpToPeriod(investments_list, start_key, g)))

\* A month window starting on 2024-01-20 shows the bucket 2024-01 for a row of
\* 2024-01-05 and leaves out the bucket of a row of 2023-12-20.
C19_Witness ==
    /\ \E r \in investments : r.purchase_date = D1220
    /\ \E r \in investments : r.purchase_date = D0105 /\ r.amount > 0
    /\ \A r \in investments : r.purchase_date # D0120
    /\ \A result \in get_earnings_analysis(investments, None, NoneStr, D0120, NoneDate, "month") :
         /\ Len(result) = 1
         /\ result[1].date = get_period_key(D0105, "month")

\* C20 as stated: for every granularity and any two dates d1 <= d2, the key of
\* d1 is <= the key of d2 under string comparison.
C20_AsStated ==
    (response.status = 200 /\ DateLE(request.d1, request.d2))
      => StrLE(response.keys[1], response.keys[2])

\* The year is written with four digits, as calendar year and as ISO week-year.
FourDigitYears(dt) ==
    /\ dt.year \in 1000 .. 9999
    /\ IsoCalendar(dt)[1] \in 1000 .. 9999

\* C20 (amended): for every granularity and any two dates d1 <= d2 whose
\* calendar years and ISO week-years have four digits, the key of d1 is <= the
\* key of d2 under string comparison.
C20_KeysSortChronologically ==
    (/\ response.status = 200
     /\ DateLE(request.d1, request.d2)
     /\ FourDigitYears(request.d1)
     /\ FourDigitYears(request.d2))
      => StrLE(response.keys[1], response.keys[2])

\* Two days of December 2024 that fall into ISO weeks of different week-years
\* got their week keys.
C20_Witness ==
    /\ response.status = 200
    /\ request.aggregate_by = "week"
    /\ request.d1 = Date(2024, 12, 29)
    /\ request.d2 = Date(2024, 12, 30)
    /\ StrLT(response.keys[1], response.keys[2])

\* C21: with requests one at a time, creates with amount > 0 and sells only,
\* the amounts of all transactions of a symbol never sum to less than 0, also
\* when sells with and without a user_id are mixed on the symbol.
C21_SequentialNoOversell ==
    \A symbol \in {r.symbol : r \in investments} :
        NetOf({r \in investments : r.symbol = symbol}) >= 0

\* Cost in cents of all buys of the (symbol, investment_type) positions of a
\* set of rows that are active (net amount > 0).
ActiveBuysCents(rows) ==
    SumPairs({<<k, 100 * BuysValue(GroupOf(rows, k[1], k[2]))>>
              : k \in {x \in GroupKeys(rows) : NetOf(GroupOf(rows, x[1], x[2])) > 0}})

\* C22: the invested amount the overview and every earnings snapshot report is,
\* position by position, the cost of all buys of each active (symbol,
\* investment_type) position -- a partial sell lowers the position's net
\* amount and leaves its invested amount as it was.
C22_InvestedIsCostOfBuys ==
    /\ get_portfolio_overview(investments, None, NoneStr).total_invested
         = ActiveBuysCents(investments)
    /\ \A investments_list \in OrderedByPurchaseDate(investments) :
         LET result == EarningsOf(investments_list, NoneDate, NoneDate, "month")
         IN  \A i \in DOMAIN result :
               LET upto == UpToPeriod(investments_list, result[i].date, "month")
               IN  result[i].invested = ActiveBuysCents({upto[n] : n \in DOMAIN upto})

-----------------------------------------------------------------------------
(* Login tokens (app/bot.py, app/api/auth.py)                               *)
(*                                                                         *)
(* The bot's /start command finds or creates the user and issues a short   *)
(* login token; GET /verify exchanges the token for a session access       *)
(* token.  Time is counted in days.  A token string is represented by its  *)
(* index among the strings generate_token can return; an Authorization      *)
(* header is represented by the list of its whitespace-separated words,    *)
(* and an absent or empty header by the empty list.                        *)

\* Largest value of the clock in the model.
MaxNow == 8

\* Largest number of login tokens issued in the model.
MaxTokens == 2

\* bot.py line 26.
TOKEN_EXPIRE_DAYS == 7

\* auth.py line 21.
ACCESS_TOKEN_EXPIRE_MINUTES == 60 * 24 * 7

\* The columns of a users row the login flow reads.
User(id, telegram_id) == [id |-> id, telegram_id |-> telegram_id]

\* A login_tokens row as create_short_token builds it: is_used takes its
\* default False, used_at is null.
LoginToken(id, token, user_id, telegram_id, expires_at) ==
    [id |-> id, token |-> token, user_id |-> user_id, telegram_id |-> telegram_id,
     is_used |-> FALSE, expires_at |-> expires_at, used_at |-> None]

\* The token strings generate_token may return that no row holds yet
\* (bot.py lines 31-35).
UnusedTokens(tokens) == (1..MaxTokens) \ {t.token : t \in tokens}

\* bot.py lines 28-47: the table after the insert of a token for the user.
create_short_token(tokens, token, user_id, telegram_id, clock) ==
    tokens \cup {LoginToken(Cardinality(tokens) + 1, token, user_id, telegram_id,
                            clock + TOKEN_EXPIRE_DAYS)}

\* bot.py lines 50-112: find or create the user, then issue a token.
start_command(telegram_id) ==
    LET found == {u \in users : u.telegram_id = telegram_id}
        user  == IF found = {} THEN User(Cardinality(users) + 1, telegram_id)
                 ELSE CHOOSE u \in found : TRUE
    IN  /\ users' = users \cup {user}
        /\ \E token \in UnusedTokens(login_tokens) :
             /\ login_tokens' = create_short_token(login_tokens, token, user.id,
                                                   user.telegram_id, now)
             /\ response' = [status |-> 200, short_token |-> token]
        /\ request' = [op |-> "start", telegram_id |-> telegram_id]
        /\ UNCHANGED <<investments, next_id, sessions, now>>

\* A day passes.
Tick ==
    /\ now < MaxNow
    /\ now' = now + 1
    /\ UNCHANGED <<investments, next_id, request, response, sessions, users, login_tokens>>

HTTPException(status_code, detail) == [status |-> status_code, detail |-> detail]

\* str.lower() on the scheme words the model draws.
Lower(scheme) ==
    IF scheme \in {"Bearer", "BEARER"} THEN "bearer" ELSE scheme

\* auth.py line 182, with the check left out.
AlreadyUsedIgnored(login_token) == FALSE

\* auth.py line 182.
AlreadyUsed(login_token) == login_token.is_used

\* auth.py lines 145-186: the header is parsed, the row is read and checked.
\* The result is the row to mark, or the error raised.
VerifyChecks(authorization, tokens, clock) ==
    IF authorization = <<>> THEN
        [ok |-> FALSE,
         error |-> HTTPException(401, "Authorization header missing")]
    ELSE IF Len(authorization) # 2 THEN
        [ok |-> FALSE,
         error |-> HTTPException(401, "Invalid authorization header format")]
    ELSE IF Lower(authorization[1]) # "bearer" THEN
        [ok |-> FALSE,
         error |-> HTTPException(401, "Invalid authentication scheme")]
    ELSE
        LET found == {t \in tokens : t.token = authorization[2]}
        IN  IF found = {} THEN
                [ok |-> FALSE, error |-> HTTPException(401, "Invalid token")]
            ELSE
                LET login_token == CHOOSE t \in found : TRUE
                IN  IF login_token.expires_at < clock THEN
                        [ok |-> FALSE, error |-> HTTPException(401, "Token expired")]
                    ELSE IF AlreadyUsed(login_token) THEN
                        [ok |-> FALSE,
                         error |-> HTTPException(401, "Token already used")]
                    ELSE [ok |-> TRUE, login_token |-> login_token]

\* auth.py lines 189-191: the UPDATE of the row by primary key, committed.
MarkUsed(tokens, login_token, clock) ==
    {IF t.id = login_token.id
        THEN [t EXCEPT !.is_used = TRUE, !.used_at = clock]
        ELSE t : t \in tokens}

\* auth.py lines 42-52 and 202-206: the claims of the session access token.
create_access_token(user, clock) ==
    [sub |-> user.telegram_id, user_id |-> user.id,
     exp |-> clock + (ACCESS_TOKEN_EXPIRE_MINUTES \div (60 * 24))]

\* auth.py lines 194-212: the user is looked up and the answer built.
VerifyAnswer(login_token, clock) ==
    LET found == {u \in users : u.id = login_token.user_id}
    IN  IF found = {} THEN HTTPException(404, "User not found")
        ELSE LET user == CHOOSE u \in found : TRUE
             IN  [status |-> 200, valid |-> TRUE, user |-> user,
                  access_token |-> create_access_token(user, clock)]

\* auth.py lines 139-212, GET /verify handled in one piece.
verify_token(authorization) ==
    LET checked == VerifyChecks(authorization, login_tokens, now)
    IN  /\ request' = [op |-> "verify", authorization |-> authorization]
        /\ IF checked.ok
              THEN /\ login_tokens' = MarkUsed(login_tokens, checked.login_token, now)
                   /\ response' = VerifyAnswer(checked.login_token, now)
              ELSE /\ response' = checked.error
                   /\ UNCHANGED login_tokens
        /\ UNCHANGED <<investments, next_id, sessions, users, now>>

\* Headers of verify requests: absent, malformed, of another scheme, and
\* bearer headers for every token string, issued or not.
Authorizations ==
    {<<>>, <<"Bearer">>} \cup
    {<<scheme, token>> : scheme \in {"Bearer", "Basic"}, token \in 1..MaxTokens}

TelegramIds == {7001, 7002}

StartCommand == \E telegram_id \in TelegramIds : start_command(telegram_id)

Verify == \E authorization \in Authorizations : verify_token(authorization)

NextVerify == StartCommand \/ Tick \/ Verify

\* Token issues and verify requests one at a time, as days pass.
SpecVerify == Init /\ [][NextVerify]_vars

(* Concurrent verify requests: each worker runs the handler in its own       *)
(* database session; the read of the row (line 166) and the commit of the   *)
(* update (line 191) are separate round trips with no lock in between.      *)

\* Lines 145-186: the worker takes a request, reads the row and checks it.
verify_read(w, authorization) ==
    LET checked == VerifyChecks(authorization, login_tokens, now)
    IN  /\ sessions[w].pc = "idle"
        /\ IF checked.ok
              THEN /\ sessions' = [sessions EXCEPT ![w] =
                                     [pc |-> "checked", authorization |-> authorization,
                                      login_token |-> checked.login_token]]
                   /\ UNCHANGED <<request, response>>
              ELSE /\ sessions' = [sessions EXCEPT ![w] =
                                     [pc |-> "idle", answer |-> checked.error]]
                   /\ request' = [op |-> "verify", authorization |-> authorization]
                   /\ response' = checked.error
        /\ UNCHANGED <<investments, next_id, auth_vars>>

\* Lines 189-212: the update is committed and the access token returned.  The
\* worker keeps the answer it gave to its last request.
verify_commit(w) ==
    /\ sessions[w].pc = "checked"
    /\ request' = [op |-> "verify", authorization |-> sessions[w].authorization]
    /\ login_tokens' = MarkUsed(login_tokens, sessions[w].login_token, now)
    /\ response' = VerifyAnswer(sessions[w].login_token, now)
    /\ sessions' = [sessions EXCEPT ![w] =
                      [pc |-> "idle", login_token |-> sessions[w].login_token,
                       answer |-> VerifyAnswer(sessions[w].login_token, now)]]
    /\ UNCHANGED <<investments, next_id, users, now>>

\* Headers of the concurrent verify requests: bearer headers for every token
\* string, issued or not.
RaceAuthorizations == {<<"Bearer", token>> : token \in 1..MaxTokens}

VerifyRead ==
    \E w \in Workers, authorization \in RaceAuthorizations : verify_read(w, authorization)

VerifyCommit == \E w \in Workers : verify_commit(w)

\* One Telegram user asks for login links.
RaceStart == \E telegram_id \in {7001} : start_command(telegram_id)

NextVerifyRace == RaceStart \/ Tick \/ VerifyRead \/ VerifyCommit

\* Token issues and verify requests whose two halves interleave freely.
SpecVerifyRace == Init /\ [][NextVerifyRace]_vars

\* A step that answers a verify request.
VerifyStep == request'.op = "verify" /\ now' = now /\ users' = users

\* The rows of the token a verify request carries.
RowsOf(authorization, tokens) ==
    IF Len(authorization) = 2 THEN {t \in tokens : t.token = authorization[2]} ELSE {}

\* C23: with verify requests one at a time, a login token is accepted at most
\* once: a row once marked used stays as it is, a verify of a token already
\* used answers 401, a verify answered 401 (token unknown, expired or used)
\* leaves every row's is_used and used_at unchanged, and a verify answered 200
\* found the token unused and marks it used.
C23_TokenAcceptedAtMostOnce ==
    [][ /\ \A t \in login_tokens : t.is_used => t \in login_tokens'
        /\ VerifyStep =>
             LET rows == RowsOf(request'.authorization, login_tokens)
             IN  /\ \A t \in rows : t.is_used =>
                       response'.status = 401 /\ login_tokens' = login_tokens
                 /\ response'.status = 401 => login_tokens' = login_tokens
                 /\ response'.status = 200 =>
                       \E t \in rows :
                          /\ ~t.is_used
                          /\ [t EXCEPT !.is_used = TRUE, !.used_at = now] \in login_tokens'
      ]_vars

\* A token that was accepted and is not expired has just been refused.
C23_Witness ==
    /\ request.op = "verify"
    /\ response = HTTPException(401, "Token already used")
    /\ \E t \in RowsOf(request.authorization, login_tokens) :
          t.is_used /\ t.used_at # None /\ t.expires_at >= now

\* The workers whose last answer is a session access token for a login token.
Granted(token) ==
    {w \in Workers :
        /\ "answer" \in DOMAIN sessions[w]
        /\ "login_token" \in DOMAIN sessions[w]
        /\ sessions[w].login_token.token = token
        /\ sessions[w].answer.status = 200}

\* C24: under any interleaving of concurrent verify requests that carry the
\* same unused, unexpired login token, at most one of the requests returns a
\* session access token.
C24_AtMostOneAccessToken ==
    \A token \in 1..MaxTokens : Cardinality(Granted(token)) <= 1

====
